---- MODULE Spec2Model ----
(***************************************************************************)
(* Sign-up, e-mail verification and login of the authentication app.       *)
(*                                                                         *)
(* The state is the database (the User rows, the EmailVerification rows    *)
(* and the two auto-increment counters), the session store (one entry per  *)
(* client session: the pending_user_id key and the authenticated user key),*)
(* the clock read by timezone.now(), and the response to the last request. *)
(* Every POST handler of views.py is one action; GET requests and         *)
(* home_view only render a page and are left out.  A second specification, *)
(* SpecRace, runs verify_view in two steps (the query, then the writes) so *)
(* that two requests can interleave between them.                          *)
(***************************************************************************)
EXTENDS Integers, Sequences, FiniteSets, TLC

VARIABLES users, verifs, nextUid, nextVid, session, now, last, req

vars == <<users, verifs, nextUid, nextVid, session, now, last, req>>

(***************************************************************************)
(* Bounds of the model.                                                    *)
(***************************************************************************)
\* how many User rows (and EmailVerification rows) are ever inserted
MaxIds == 2
\* the clock runs from 0 to MaxTime minutes, in steps of TickMinutes
MaxTime == 30
TickMinutes == 15

\* client sessions
Sessions == {"s1", "s2"}
\* threads that serve verify requests in SpecRace
Workers == {"w1", "w2"}

\* Python's None, and the pk of no row
None == 0

(***************************************************************************)
(* Strings.  An e-mail address is a sequence of tokens: "@", the double    *)
(* quote (written "dq") and chunks of other characters.                    *)
(***************************************************************************)
\* settings.ALLOWED_EMAIL_DOMAIN
ALLOWED_EMAIL_DOMAIN == <<"sydney.edu.pl">>

Emails ==
    { <<"ann", "@", "sydney.edu.pl">>,
      <<"bob", "@", "sydney.edu.pl">>,
      <<"ann", "@", "gmail.com">>,
      <<"ann", "@", "Sydney.edu.pl">>,
      <<"ann">>,
      <<"ann", "@", "sydney.edu.pl", "@", "gmail.com">>,
      <<"dq", "x", "@", "sydney.edu.pl", "@", "y", "dq", "@", "gmail.com">> }

Passwords == {"pw", "bad"}

\* the registration forms clients post: email, username, password1, password2
SignUpForms ==
    { <<e, u, "pw", "pw">> : e \in Emails, u \in {"ann"} } \cup
    { << <<"bob", "@", "sydney.edu.pl">>, "bob", "pw", "pw" >>,
      << <<"bob", "@", "sydney.edu.pl">>, "bob", "pw", "bad" >> }

\* the addresses clients log in with
LoginEmails ==
    { <<"ann", "@", "sydney.edu.pl">>, <<"bob", "@", "sydney.edu.pl">>, <<"ann">>,
      <<"dq", "x", "@", "sydney.edu.pl", "@", "y", "dq", "@", "gmail.com">> }

\* string.digits
Digits == {"0", "1", "2", "3", "4", "5", "6", "7", "8", "9"}

\* EmailVerification.generate_code: the codes random.choices may return (two of
\* the 10^6 strings of six digits)
generate_code == { <<"1", "2", "3", "4", "5", "6">>, <<"0", "0", "7", "0", "0", "7">> }

\* the codes a client submits: the generated ones, a short one, a non-numeric one
SubmitCodes == generate_code \cup { <<"1", "2", "3", "4", "5">>, <<"a", "b", "c", "1", "2", "3">> }

Range(s) == { s[i] : i \in 1..Len(s) }

(***************************************************************************)
(* str.split('@'): the pieces of s between the separators.                 *)
(***************************************************************************)
RECURSIVE SplitAt(_, _)
SplitAt(s, acc) ==
    IF s = <<>> THEN <<acc>>
    ELSE IF Head(s) = "@" THEN <<acc>> \o SplitAt(Tail(s), <<>>)
    ELSE SplitAt(Tail(s), Append(acc, Head(s)))

split(s) == SplitAt(s, <<>>)

\* the domain clean_email compares: email.split('@')[1] if '@' in email else ''
email_domain(email) ==
    IF "@" \in Range(email) THEN split(email)[2] ELSE <<>>

\* SignUpForm.clean_email accepts the address
clean_email(email) == email_domain(email) = ALLOWED_EMAIL_DOMAIN

(***************************************************************************)
(* forms.EmailField runs Django's EmailValidator before clean_email: the   *)
(* address is cut at its last "@" (rsplit), the part before it is a        *)
(* dot-atom or a quoted string (which may hold "@"), the part after it a   *)
(* host name.                                                              *)
(***************************************************************************)
LastAt(email) == CHOOSE i \in 1..Len(email) :
                    /\ email[i] = "@"
                    /\ \A j \in (i+1)..Len(email) : email[j] # "@"

EmailField(email) ==
    /\ "@" \in Range(email)
    /\ LET at == LastAt(email)
           user_part == SubSeq(email, 1, at - 1)
           domain_part == SubSeq(email, at + 1, Len(email))
           dot_atom == /\ user_part # <<>>
                       /\ Range(user_part) \cap {"@", "dq"} = {}
           quoted == /\ Len(user_part) >= 2
                     /\ user_part[1] = "dq"
                     /\ user_part[Len(user_part)] = "dq"
                     /\ \A i \in 2..(Len(user_part) - 1) : user_part[i] # "dq"
       IN  /\ dot_atom \/ quoted
           /\ Len(domain_part) = 1
           /\ domain_part[1] # "dq"

\* VerificationForm: min_length = max_length = 6, and clean_code's isdigit
clean_code(code) == Len(code) = 6 /\ Range(code) \subseteq Digits

(***************************************************************************)
(* Rows.  A table is a function from the primary keys in use to rows.      *)
(***************************************************************************)
\* EmailVerification.save: expires_at = timezone.now() + timedelta(minutes=30)
EXPIRY_MINUTES == 30

\* Model.save() of a row under primary key id: INSERT, or UPDATE when id is in use
save_row(table, id, row) ==
    [x \in DOMAIN table \cup {id} |-> IF x = id THEN row ELSE table[x]]

\* the primary key the database gives the row user.save() inserts
new_id(counter) == counter

\* the user saved without is_active = False (AbstractUser's default is True)
new_user_active(email, username, password) ==
    [email |-> email, username |-> username, password |-> password,
     is_active |-> TRUE, is_verified |-> FALSE]

\* form.save(commit=False); user.is_active = False  (is_verified defaults to False)
new_user(email, username, password) ==
    [email |-> email, username |-> username, password |-> password,
     is_active |-> FALSE, is_verified |-> FALSE]

\* EmailVerification.objects.create(user=user), through the save() override
new_verification(uid, code, t) ==
    [user |-> uid, code |-> code, created_at |-> t,
     expires_at |-> t + EXPIRY_MINUTES, is_used |-> FALSE]

\* is_valid without the expiry test
is_valid_unchecked(v, t) == ~v.is_used

\* is_valid with the expiry instant itself still accepted
is_valid_at_expiry(v, t) == ~v.is_used /\ v.expires_at >= t

\* EmailVerification.is_valid at time t
is_valid(v, t) == ~v.is_used /\ v.expires_at > t

\* the filter without user=user
filter_any_user(vs, uid, code) ==
    { v \in DOMAIN vs : vs[v].code = code /\ ~vs[v].is_used }

\* EmailVerification.objects.filter(user=user, code=code, is_used=False)
filter_unused(vs, uid, code) ==
    { v \in DOMAIN vs : vs[v].user = uid /\ vs[v].code = code /\ ~vs[v].is_used }

\* .first() under ordering = ['created_at']: the oldest matching row
filter_first_oldest(vs, uid, code) ==
    LET found == filter_unused(vs, uid, code)
    IN  IF found = {} THEN {None}
        ELSE { v \in found : \A w \in found : vs[v].created_at <= vs[w].created_at }

\* .first() under Meta.ordering = ['-created_at']: the rows it may return (rows
\* created at the same instant are in no particular order), None when none matches
filter_first(vs, uid, code) ==
    LET found == filter_unused(vs, uid, code)
    IN  IF found = {} THEN {None}
        ELSE { v \in found : \A w \in found : vs[w].created_at <= vs[v].created_at }

\* a save() that sets expires_at on every save, not only on the first
mark_used_renewed(v) ==
    [v EXCEPT !.is_used = TRUE, !.expires_at = @ + EXPIRY_MINUTES]

\* the row saved without the flag set
mark_used_forgotten(v) == v

\* verification.is_used = True; verification.save()
mark_used(v) == [v EXCEPT !.is_used = TRUE]

\* the user activated but not marked verified
activate_only(u) == [u EXCEPT !.is_active = TRUE]

\* user.is_active = True; user.is_verified = True; user.save()
activate(u) == [u EXCEPT !.is_active = TRUE, !.is_verified = TRUE]

\* a delete that keeps the row of uid and removes the others
delete_others(us, uid) == [x \in DOMAIN us \cap {uid} |-> us[x]]

\* user.delete(): the User row goes ...
delete_user(us, uid) == [x \in DOMAIN us \ {uid} |-> us[x]]

\* a cascade that takes the rows of the other users
delete_cascade_others(vs, uid) == [x \in { v \in DOMAIN vs : vs[v].user = uid } |-> vs[x]]

\* a foreign key that leaves the rows of a deleted user behind
delete_no_cascade(vs, uid) == vs

\* ... and on_delete=CASCADE takes the EmailVerification rows that point to it
delete_cascade(vs, uid) == [x \in { v \in DOMAIN vs : vs[v].user # uid } |-> vs[x]]

(***************************************************************************)
(* Sessions.                                                               *)
(***************************************************************************)
EmptySession == [pending_user_id |-> None, auth |-> None]

\* the key left in the session
del_pending_forgotten(sess) == sess

\* del request.session['pending_user_id']
del_pending(sess) == [sess EXCEPT !.pending_user_id = None]

\* request.user.is_authenticated: the session names a user the backend still accepts
is_authenticated(s) ==
    /\ session[s].auth # None
    /\ session[s].auth \in DOMAIN users
    /\ users[session[s].auth].is_active

\* django.contrib.auth.login: a session that belongs to another user is flushed,
\* any other keeps its data under a new key
auth_login(sess, uid) ==
    IF sess.auth # None /\ sess.auth # uid
    THEN [EmptySession EXCEPT !.auth = uid]
    ELSE [sess EXCEPT !.auth = uid]

\* AuthenticationForm.clean: the default ModelBackend looks the user up by
\* USERNAME_FIELD (email), checks the password and rejects an inactive user
authenticate(us, email, password) ==
    { u \in DOMAIN us : /\ us[u].email = email
                        /\ us[u].password = password
                        /\ us[u].is_active }

\* SignUpForm.is_valid(): the EmailField, clean_email, the unique fields of the
\* model form and UserCreationForm's two passwords
signup_form_valid(us, email, username, password1, password2) ==
    /\ EmailField(email)
    /\ clean_email(email)
    /\ \A u \in DOMAIN us : us[u].email # email /\ us[u].username # username
    /\ password1 = password2

(***************************************************************************)
(* The response to the last request: the view and the session it came to,  *)
(* the account and the verification row the view worked on (None when it   *)
(* found none) and the outcome the view reports.                           *)
(***************************************************************************)
Response(view, s, uid, vid, result) ==
    [view |-> view, sid |-> s, uid |-> uid, vid |-> vid, result |-> result]

NoResponse == Response("none", "s1", None, None, "none")

\* a worker thread with no verify request in hand
Idle == [pc |-> "idle", sid |-> "s1", uid |-> None, vid |-> None, sess |-> EmptySession]

Init ==
    /\ users = [x \in {} |-> None]
    /\ verifs = [x \in {} |-> None]
    /\ nextUid = 1
    /\ nextVid = 1
    /\ session = [s \in Sessions |-> EmptySession]
    /\ now = 0
    /\ last = NoResponse
    /\ req = [w \in Workers |-> Idle]

(***************************************************************************)
(* signup_view, POST.  sent tells whether send_mail returned or raised.    *)
(***************************************************************************)
signup_view(s, email, username, password1, password2) ==
    LET uid == new_id(nextUid)
        vid == nextVid
        users1 == save_row(users, uid, new_user(email, username, password1))
        verifs1(code) == save_row(verifs, vid, new_verification(uid, code, now))
        resp(u, v, r) == Response("signup", s, u, v, r)
    IN
    /\ UNCHANGED <<now, req>>
    /\ IF is_authenticated(s)
       THEN /\ last' = resp(None, None, "RedirectHome")
            /\ UNCHANGED <<users, verifs, nextUid, nextVid, session>>
       ELSE IF ~signup_form_valid(users, email, username, password1, password2)
       THEN /\ last' = resp(None, None, IF EmailField(email) /\ ~clean_email(email)
                                        THEN "DomainNotAllowed" ELSE "FormInvalid")
            /\ UNCHANGED <<users, verifs, nextUid, nextVid, session>>
       ELSE /\ nextUid <= MaxIds
            /\ nextUid' = nextUid + 1
            /\ nextVid' = nextVid + 1
            /\ \E code \in generate_code, sent \in BOOLEAN :
                 IF sent
                 THEN /\ users' = users1
                      /\ verifs' = verifs1(code)
                      /\ session' = [session EXCEPT ![s].pending_user_id = uid]
                      /\ last' = resp(uid, vid, "PendingVerification")
                 ELSE /\ users' = delete_user(users1, uid)
                      /\ verifs' = delete_cascade(verifs1(code), uid)
                      /\ UNCHANGED session
                      /\ last' = resp(uid, vid, "MailSendFailed")

(***************************************************************************)
(* verify_view with the form validated before the pending user is looked   *)
(* up.                                                                     *)
(***************************************************************************)
verify_view_form_first(s, code) ==
    LET uid == session[s].pending_user_id
        resp(v, r) == Response("verify", s, uid, v, r)
    IN
    /\ UNCHANGED <<nextUid, nextVid, now, req>>
    /\ IF ~clean_code(code)
       THEN /\ last' = resp(None, "FormInvalid")
            /\ UNCHANGED <<users, verifs, session>>
       ELSE IF uid = None \/ uid \notin DOMAIN users
       THEN /\ last' = resp(None, "NoPendingVerification")
            /\ UNCHANGED <<users, verifs, session>>
       ELSE \E v \in filter_first(verifs, uid, code) :
               IF v # None /\ is_valid(verifs[v], now)
               THEN /\ verifs' = save_row(verifs, v, mark_used(verifs[v]))
                    /\ users' = save_row(users, uid, activate(users[uid]))
                    /\ session' = [session EXCEPT ![s] =
                           auth_login(del_pending(session[s]), uid)]
                    /\ last' = resp(v, "Authenticated")
               ELSE /\ last' = resp(v, "InvalidOrExpiredCode")
                    /\ UNCHANGED <<users, verifs, session>>

(***************************************************************************)
(* verify_view, POST.                                                      *)
(***************************************************************************)
verify_view(s, code) ==
    LET uid == session[s].pending_user_id
        resp(v, r) == Response("verify", s, uid, v, r)
    IN
    /\ UNCHANGED <<nextUid, nextVid, now, req>>
    /\ IF uid = None \/ uid \notin DOMAIN users
       THEN /\ last' = resp(None, "NoPendingVerification")
            /\ UNCHANGED <<users, verifs, session>>
       ELSE IF ~clean_code(code)
       THEN /\ last' = resp(None, "FormInvalid")
            /\ UNCHANGED <<users, verifs, session>>
       ELSE \E v \in filter_first(verifs, uid, code) :
               IF v # None /\ is_valid(verifs[v], now)
               THEN /\ verifs' = save_row(verifs, v, mark_used(verifs[v]))
                    /\ users' = save_row(users, uid, activate(users[uid]))
                    /\ session' = [session EXCEPT ![s] =
                           auth_login(del_pending(session[s]), uid)]
                    /\ last' = resp(v, "Authenticated")
               ELSE /\ last' = resp(v, "InvalidOrExpiredCode")
                    /\ UNCHANGED <<users, verifs, session>>

(***************************************************************************)
(* login_view, POST.                                                       *)
(***************************************************************************)
login_view(s, email, password) ==
    LET resp(u, r) == Response("login", s, u, None, r)
        found == authenticate(users, email, password)
    IN
    /\ UNCHANGED <<users, verifs, nextUid, nextVid, now, req>>
    /\ IF is_authenticated(s)
       THEN /\ last' = resp(None, "RedirectHome")
            /\ UNCHANGED session
       ELSE IF ~EmailField(email) \/ found = {}
       THEN /\ last' = resp(None, "InvalidCredentials")
            /\ UNCHANGED session
       ELSE \E u \in found :
               IF ~users[u].is_verified
               THEN /\ session' = [session EXCEPT ![s].pending_user_id = u]
                    /\ last' = resp(u, "NotVerified")
               ELSE /\ session' = [session EXCEPT ![s] = auth_login(session[s], u)]
                    /\ last' = resp(u, "Authenticated")

(***************************************************************************)
(* logout_view behind @login_required: logout() flushes the session.       *)
(***************************************************************************)
logout_view(s) ==
    LET resp(r) == Response("logout", s, session[s].auth, None, r)
    IN
    /\ UNCHANGED <<users, verifs, nextUid, nextVid, now, req>>
    /\ IF is_authenticated(s)
       THEN /\ session' = [session EXCEPT ![s] = EmptySession]
            /\ last' = resp("LoggedOut")
       ELSE /\ last' = resp("RedirectLogin")
            /\ UNCHANGED session

(***************************************************************************)
(* Time passes between requests.                                           *)
(***************************************************************************)
Tick ==
    /\ now + TickMinutes <= MaxTime
    /\ now' = now + TickMinutes
    /\ last' = Response("tick", "s1", None, None, "none")
    /\ UNCHANGED <<users, verifs, nextUid, nextVid, session, req>>

SignUp == \E s \in Sessions, f \in SignUpForms : signup_view(s, f[1], f[2], f[3], f[4])

Verify == \E s \in Sessions, code \in SubmitCodes : verify_view(s, code)

Login == \E s \in Sessions, email \in LoginEmails, password \in Passwords :
            login_view(s, email, password)

Logout == \E s \in Sessions : logout_view(s)

Next == SignUp \/ Verify \/ Login \/ Logout \/ Tick

Spec == Init /\ [][Next]_vars

(***************************************************************************)
(* verify_view served by worker threads, in two steps.  VerifyQuery is the *)
(* view down to "if verification and verification.is_valid()" taken on its *)
(* true branch: the thread holds the session it loaded, the user and the   *)
(* row .first() returned.  VerifyWrite is the rest: the two save() calls,  *)
(* the session update and login().  Nothing locks the row in between.      *)
(***************************************************************************)
VerifyQuery(w, s, code) ==
    LET uid == session[s].pending_user_id
    IN
    /\ req[w].pc = "idle"
    /\ uid # None /\ uid \in DOMAIN users
    /\ clean_code(code)
    /\ \E v \in filter_first(verifs, uid, code) :
          /\ v # None /\ is_valid(verifs[v], now)
          /\ req' = [req EXCEPT ![w] =
                 [pc |-> "found", sid |-> s, uid |-> uid, vid |-> v, sess |-> session[s]]]
    /\ UNCHANGED <<users, verifs, nextUid, nextVid, session, now, last>>

VerifyWrite(w) ==
    LET r == req[w]
    IN
    /\ r.pc = "found"
    /\ verifs' = save_row(verifs, r.vid, mark_used(verifs[r.vid]))
    /\ users' = save_row(users, r.uid, activate(users[r.uid]))
    /\ session' = [session EXCEPT ![r.sid] = auth_login(del_pending(r.sess), r.uid)]
    /\ last' = Response("verify", r.sid, r.uid, r.vid, "Authenticated")
    /\ req' = [req EXCEPT ![w] = Idle]
    /\ UNCHANGED <<nextUid, nextVid, now>>

Query == \E w \in Workers, s \in Sessions, code \in SubmitCodes : VerifyQuery(w, s, code)

Write == \E w \in Workers : VerifyWrite(w)

\* sign-ups, the clock and the two-step verify requests of the worker threads
NextRace == SignUp \/ Tick \/ Query \/ Write

SpecRace == Init /\ [][NextRace]_vars

(***************************************************************************)
(* The verification table as the schema allows it.  EmailVerification.user *)
(* is a ForeignKey, so an account may own several rows, and Meta.ordering  *)
(* ranks them; the views themselves insert one row per account.  SpecStore *)
(* starts verify_view on every table of MaxRows unused rows shared by two  *)
(* pending accounts, the rows numbered in the order of their creation.     *)
(***************************************************************************)
MaxRows == 3

StoreTables ==
    { t \in [1..MaxRows -> { new_verification(u, c, at) :
                                u \in 1..2, c \in generate_code, at \in {0, TickMinutes} }] :
        \A i, j \in 1..MaxRows : i < j => t[i].created_at <= t[j].created_at }

InitStore ==
    /\ users = [x \in 1..2 |->
                  new_user(<<IF x = 1 THEN "ann" ELSE "bob", "@", "sydney.edu.pl">>,
                           IF x = 1 THEN "ann" ELSE "bob", "pw")]
    /\ verifs \in StoreTables
    /\ nextUid = 3
    /\ nextVid = MaxRows + 1
    /\ session = [s \in Sessions |->
                    [EmptySession EXCEPT !.pending_user_id = IF s = "s1" THEN 1 ELSE 2]]
    /\ now = TickMinutes
    /\ last = NoResponse
    /\ req = [w \in Workers |-> Idle]

NextStore == Verify \/ Tick

SpecStore == InitStore /\ [][NextStore]_vars

(***************************************************************************)
(* Properties.  A step of a view is recognised by the response it writes;  *)
(* the inputs of the request are quantified over.                          *)
(***************************************************************************)

\* C1: a verify request in a session whose pending_user_id names an existing
\* account A, with the code of an unused, unexpired row of A, ends with that
\* row used, A active and verified, pending_user_id gone from the session and
\* the session authenticated as A.
C1_VerifySucceeds ==
    [][ last'.view = "verify" =>
        \A code \in SubmitCodes :
          LET s == last'.sid
              A == session[s].pending_user_id
              good == { v \in DOMAIN verifs :
                          /\ verifs[v].user = A /\ verifs[v].code = code
                          /\ ~verifs[v].is_used /\ now < verifs[v].expires_at }
          IN  (verify_view(s, code) /\ A \in DOMAIN users /\ good # {}) =>
                /\ last'.result = "Authenticated"
                /\ \A v \in good : verifs'[v].is_used
                /\ users'[A].is_active /\ users'[A].is_verified
                /\ session'[s].pending_user_id = None
                /\ session'[s].auth = A ]_vars

\* a verify request has just succeeded, some time after the row was issued
C1_Witness ==
    /\ last.view = "verify" /\ last.result = "Authenticated"
    /\ last.vid \in DOMAIN verifs
    /\ verifs[last.vid].is_used
    /\ verifs[last.vid].created_at < now
    /\ users[last.uid].is_active /\ users[last.uid].is_verified
    /\ session[last.sid] = [pending_user_id |-> None, auth |-> last.uid]

\* C2 as stated: once a verify request has succeeded with a code for account A,
\* a later verify attempt with that code for A (in a session whose
\* pending_user_id names A or, the success having removed the key, that is
\* authenticated as A) fails with InvalidOrExpiredCode.
C2_SecondAttemptInvalidCode ==
    [][ last'.view = "verify" =>
        \A code \in SubmitCodes, A \in DOMAIN users :
          LET s == last'.sid
          IN  ( /\ verify_view(s, code)
                /\ users[A].is_verified
                /\ \E v \in DOMAIN verifs :
                      verifs[v].user = A /\ verifs[v].code = code /\ verifs[v].is_used
                /\ \/ session[s].pending_user_id = A
                   \/ session[s].pending_user_id = None /\ session[s].auth = A ) =>
              last'.result = "InvalidOrExpiredCode" ]_vars

\* C2 amended: such a later attempt fails with NoPendingVerification (the success
\* removed pending_user_id and nothing sets it to a verified account again) and
\* changes no account and no row; and every verify request that succeeds finds
\* the account unverified and the row unused, so the account becomes active and
\* verified exactly once.
C2_SecondAttemptNoPending ==
    [][ last'.view = "verify" =>
        \A code \in SubmitCodes :
          LET s == last'.sid
          IN  verify_view(s, code) =>
                /\ \A A \in DOMAIN users :
                     ( /\ users[A].is_verified
                       /\ \E v \in DOMAIN verifs :
                             verifs[v].user = A /\ verifs[v].code = code /\ verifs[v].is_used
                       /\ \/ session[s].pending_user_id = A
                          \/ session[s].pending_user_id = None /\ session[s].auth = A ) =>
                     /\ last'.result = "NoPendingVerification"
                     /\ users' = users /\ verifs' = verifs
                /\ last'.result = "Authenticated" =>
                     /\ ~users[last'.uid].is_verified
                     /\ ~verifs[last'.vid].is_used ]_vars

\* a verify request has just failed in the session the earlier success authenticated
C2_Witness ==
    /\ last.view = "verify" /\ last.result = "NoPendingVerification"
    /\ session[last.sid].pending_user_id = None
    /\ session[last.sid].auth \in DOMAIN users
    /\ users[session[last.sid].auth].is_verified
    /\ \E v \in DOMAIN verifs : verifs[v].user = session[last.sid].auth /\ verifs[v].is_used

\* C3: at most one verify request succeeds against a verification row, also when
\* two requests interleave between the query and the write: the write of a
\* succeeding request always finds the row still unused.
C3_AtMostOneSuccess ==
    [][ \A w \in Workers : VerifyWrite(w) => ~verifs[req[w].vid].is_used ]_vars

\* C4: a row is valid iff it is unused and the time is strictly before its expiry,
\* the issue time plus 30 minutes: a verify request succeeds only on such a row,
\* and one that submits the code of an unused row of the pending account at or
\* after the expiry fails with InvalidOrExpiredCode and leaves every account as
\* it was.
C4_ExpiredCodeFails ==
    [][ last'.view = "verify" =>
        \A code \in SubmitCodes :
          LET s == last'.sid
              A == session[s].pending_user_id
              mine == { v \in DOMAIN verifs :
                          verifs[v].user = A /\ verifs[v].code = code /\ ~verifs[v].is_used }
          IN  (verify_view(s, code) /\ A \in DOMAIN users) =>
                /\ (mine # {} /\ \A v \in mine : now >= verifs[v].created_at + 30) =>
                     /\ last'.result = "InvalidOrExpiredCode"
                     /\ users' = users
                /\ last'.result = "Authenticated" <=>
                     \E v \in mine : now < verifs[v].created_at + 30 ]_vars

\* the code of an unused row has just been refused at the very instant it expires
C4_Witness ==
    /\ last.view = "verify" /\ last.result = "InvalidOrExpiredCode"
    /\ last.vid \in DOMAIN verifs
    /\ ~verifs[last.vid].is_used
    /\ verifs[last.vid].user = last.uid
    /\ now = verifs[last.vid].created_at + 30
    /\ ~users[last.uid].is_active /\ ~users[last.uid].is_verified

\* C5: a verify request in a session whose pending_user_id names account A, with
\* a code no row of A carries, does not succeed: A stays unverified and no row of
\* another account changes its used flag.
C5_LookupIsAccountScoped ==
    [][ last'.view = "verify" =>
        \A code \in SubmitCodes :
          LET s == last'.sid
              A == session[s].pending_user_id
          IN  ( /\ verify_view(s, code)
                /\ A \in DOMAIN users
                /\ ~\E v \in DOMAIN verifs : verifs[v].user = A /\ verifs[v].code = code ) =>
                /\ last'.result # "Authenticated"
                /\ users'[A] = users[A]
                /\ session'[s].auth = session[s].auth
                /\ \A v \in DOMAIN verifs :
                     verifs[v].user # A =>
                       v \in DOMAIN verifs' /\ verifs'[v].is_used = verifs[v].is_used ]_vars

\* a well-formed code has just been refused for account A, whose own unused row
\* carries another code, while an unused, unexpired row of another account exists
\* (the model has two codes, so the refused code is that row's whenever the two
\* rows differ)
C5_Witness ==
    /\ last.view = "verify" /\ last.result = "InvalidOrExpiredCode"
    /\ last.vid = None
    /\ ~users[last.uid].is_verified
    /\ \E a, b \in DOMAIN verifs :
          /\ verifs[a].user = last.uid /\ ~verifs[a].is_used
          /\ verifs[b].user # last.uid /\ ~verifs[b].is_used /\ now < verifs[b].expires_at
          /\ verifs[a].code # verifs[b].code

\* C6: a sign-up request whose e-mail has a domain (what follows its "@", the
\* empty string when it has none) other than the allowed domain creates no
\* account, issues no verification row and sets no pending_user_id.
C6_ForeignDomainRejected ==
    [][ last'.view = "signup" =>
        \A f \in SignUpForms :
          LET email == f[1]
              at == CHOOSE i \in 1..Len(email) :
                       email[i] = "@" /\ \A j \in 1..(i - 1) : email[j] # "@"
              domain == IF "@" \in Range(email)
                        THEN SubSeq(email, at + 1, Len(email)) ELSE <<>>
          IN  ( /\ signup_view(last'.sid, f[1], f[2], f[3], f[4])
                /\ domain # ALLOWED_EMAIL_DOMAIN ) =>
              /\ users' = users
              /\ verifs' = verifs
              /\ session' = session ]_vars

\* C7: a sign-up request whose mail send fails leaves no account with its e-mail
\* and no verification row of the account it had created; the accounts, the rows
\* and the sessions are those from before the request.
C7_MailFailureRollsBack ==
    [][ (last'.view = "signup" /\ last'.result = "MailSendFailed") =>
        \A f \in SignUpForms :
          signup_view(last'.sid, f[1], f[2], f[3], f[4]) =>
            /\ \A u \in DOMAIN users' : users'[u].email # f[1]
            /\ \A v \in DOMAIN verifs' : verifs'[v].user # last'.uid
            /\ users' = users
            /\ verifs' = verifs
            /\ session' = session ]_vars

\* a mail send has just failed while another account, its row and its pending
\* session exist
C7_Witness ==
    /\ last.view = "signup" /\ last.result = "MailSendFailed"
    /\ last.uid \notin DOMAIN users
    /\ last.vid \notin DOMAIN verifs
    /\ DOMAIN users # {} /\ DOMAIN verifs # {}
    /\ session[last.sid].pending_user_id \in DOMAIN users

\* C8: a login request with the e-mail and password of an account that sign-up
\* created and that is not verified yet reports NotVerified and sets the
\* session's pending_user_id to that account, without authenticating the session.
C8_UnverifiedLoginReentersPending ==
    [][ last'.view = "login" =>
        \A email \in LoginEmails, password \in Passwords, u \in DOMAIN users :
          LET s == last'.sid
          IN  ( /\ login_view(s, email, password)
                /\ ~is_authenticated(s)
                /\ users[u].email = email /\ users[u].password = password
                /\ ~users[u].is_verified ) =>
              /\ last'.result = "NotVerified"
              /\ session'[s].pending_user_id = u
              /\ session'[s].auth = session[s].auth ]_vars

\* C9: every session that is authenticated as an account has that account
\* existing, active and verified.
C9_AuthenticatedImpliesVerified ==
    \A s \in Sessions :
        session[s].auth # None =>
            /\ session[s].auth \in DOMAIN users
            /\ users[session[s].auth].is_active
            /\ users[session[s].auth].is_verified

\* both sessions are authenticated, one by the verify request and the other by a
\* later login request
C9_Witness ==
    /\ last.view = "login" /\ last.result = "Authenticated"
    /\ \A s \in Sessions : session[s].auth # None

\* C10: an account that is active and verified is still there, active and
\* verified, after every request.
C10_VerifiedStaysVerified ==
    [][ \A u \in DOMAIN users :
          (users[u].is_active /\ users[u].is_verified) =>
             /\ u \in DOMAIN users'
             /\ users'[u].is_active /\ users'[u].is_verified ]_vars

\* a verified account has lived through a later sign-up that was rolled back
C10_Witness ==
    /\ last.view = "signup" /\ last.result = "MailSendFailed"
    /\ \E u \in DOMAIN users : users[u].is_active /\ users[u].is_verified

\* C11: a verify request for an existing pending account A whose well-formed
\* code no unused, unexpired row of A carries fails with InvalidOrExpiredCode, and
\* a verify request that fails so changes no row, no account and no session:
\* pending_user_id is still there and the code can be submitted again.
C11_FailedVerifyChangesNothing ==
    [][ last'.view = "verify" =>
        \A code \in SubmitCodes :
          LET s == last'.sid
              A == session[s].pending_user_id
              good == { v \in DOMAIN verifs :
                          /\ verifs[v].user = A /\ verifs[v].code = code
                          /\ ~verifs[v].is_used /\ now < verifs[v].expires_at }
          IN  verify_view(s, code) =>
                /\ (A \in DOMAIN users /\ clean_code(code) /\ good = {}) =>
                     last'.result = "InvalidOrExpiredCode"
                /\ last'.result = "InvalidOrExpiredCode" =>
                     /\ good = {}
                     /\ users' = users
                     /\ verifs' = verifs
                     /\ session' = session
                     /\ session'[s].pending_user_id = A ]_vars

\* a code that no row of the pending account carries has just been refused, and
\* the account's own row is still unused and unexpired for the next attempt
C11_Witness ==
    /\ last.view = "verify" /\ last.result = "InvalidOrExpiredCode"
    /\ last.vid = None
    /\ session[last.sid].pending_user_id = last.uid
    /\ \E v \in DOMAIN verifs :
          verifs[v].user = last.uid /\ ~verifs[v].is_used /\ now < verifs[v].expires_at
    /\ now > 0

\* C12: a verify request in a session that has no pending_user_id, or whose
\* pending_user_id names no existing account, fails with NoPendingVerification
\* whatever the code, and changes no account, no row and no session.
C12_NoPendingVerification ==
    [][ last'.view = "verify" =>
        \A code \in SubmitCodes :
          LET s == last'.sid
              A == session[s].pending_user_id
          IN  (verify_view(s, code) /\ (A = None \/ A \notin DOMAIN users)) =>
                /\ last'.result = "NoPendingVerification"
                /\ users' = users
                /\ verifs' = verifs
                /\ session' = session ]_vars

\* a verify request has just been turned away in a session that never signed up,
\* while an account of another session waits with an unused row
C12_Witness ==
    /\ last.view = "verify" /\ last.result = "NoPendingVerification"
    /\ session[last.sid] = EmptySession
    /\ \E s \in Sessions : session[s].pending_user_id \in DOMAIN users
    /\ \E v \in DOMAIN verifs : ~verifs[v].is_used

\* C13: a sign-up request whose mail send succeeds ends with one new account,
\* inactive and unverified, exactly one new verification row, owned by it, unused
\* and expiring 30 minutes after the request, the session's pending_user_id set to
\* the new account and the session not authenticated.
C13_SignUpCreatesPendingAccount ==
    [][ (last'.view = "signup" /\ last'.result = "PendingVerification") =>
        LET s == last'.sid
            u == last'.uid
            fresh == DOMAIN verifs' \ DOMAIN verifs
        IN  /\ \E f \in SignUpForms :
                 /\ signup_view(s, f[1], f[2], f[3], f[4])
                 /\ users'[u].email = f[1]
            /\ DOMAIN users' = DOMAIN users \cup {u} /\ u \notin DOMAIN users
            /\ \A x \in DOMAIN users : users'[x] = users[x]
            /\ ~users'[u].is_active /\ ~users'[u].is_verified
            /\ Cardinality(fresh) = 1
            /\ { v \in DOMAIN verifs' : verifs'[v].user = u } = fresh
            /\ \A v \in fresh : /\ ~verifs'[v].is_used
                                /\ verifs'[v].created_at = now
                                /\ verifs'[v].expires_at = now + 30
            /\ \A v \in DOMAIN verifs : verifs'[v] = verifs[v]
            /\ session'[s].pending_user_id = u
            /\ session'[s].auth = None ]_vars

\* a second account has just signed up, some time after the first
C13_Witness ==
    /\ last.view = "signup" /\ last.result = "PendingVerification"
    /\ now > 0
    /\ Cardinality(DOMAIN users) = 2
    /\ ~users[last.uid].is_active /\ ~users[last.uid].is_verified
    /\ verifs[last.vid].user = last.uid
    /\ verifs[last.vid].expires_at = now + 30
    /\ session[last.sid] = [pending_user_id |-> last.uid, auth |-> None]

\* C14: the code of every verification row is six decimal digits, and a row keeps
\* the code, the creation time and the expiry it was created with: marking it
\* used changes nothing else.
C14_CodeIsSixDigitsAndKept ==
    [][ /\ \A v \in DOMAIN verifs' :
             /\ Len(verifs'[v].code) = 6
             /\ \A i \in 1..6 : verifs'[v].code[i] \in Digits
        /\ \A v \in DOMAIN verifs \cap DOMAIN verifs' :
             /\ verifs'[v].code = verifs[v].code
             /\ verifs'[v].created_at = verifs[v].created_at
             /\ verifs'[v].expires_at = verifs[v].expires_at
             /\ verifs'[v].user = verifs[v].user ]_vars

\* a row has just been marked used, some time after it was issued with its
\* six-digit code and its expiry 30 minutes on
C14_Witness ==
    /\ last.view = "verify" /\ last.result = "Authenticated"
    /\ verifs[last.vid].is_used
    /\ Len(verifs[last.vid].code) = 6
    /\ verifs[last.vid].expires_at = verifs[last.vid].created_at + 30
    /\ verifs[last.vid].created_at < now
    /\ Cardinality(DOMAIN verifs) = 2

\* C15: when several unused rows of the pending account carry the submitted
\* code, a verify request that succeeds has taken the most recently created of
\* them and marks exactly that row used; every other row, of this account or of
\* another, stays as it was, and no row appears or disappears.
C15_MostRecentRowOnly ==
    [][ (last'.view = "verify" /\ last'.result = "Authenticated") =>
        \A code \in SubmitCodes :
          LET s == last'.sid
              A == session[s].pending_user_id
              mine == { v \in DOMAIN verifs :
                          verifs[v].user = A /\ verifs[v].code = code /\ ~verifs[v].is_used }
              v == last'.vid
          IN  verify_view(s, code) =>
                /\ v \in mine
                /\ \A w \in mine : verifs[w].created_at <= verifs[v].created_at
                /\ verifs'[v].is_used
                /\ DOMAIN verifs' = DOMAIN verifs
                /\ \A w \in DOMAIN verifs \ {v} : verifs'[w] = verifs[w] ]_vars

\* a verify request has just used the newest of two rows of one account that
\* carry the same code; the older row is still unused and unexpired
C15_Witness ==
    /\ last.view = "verify" /\ last.result = "Authenticated"
    /\ verifs[last.vid].is_used
    /\ \E w \in DOMAIN verifs :
          /\ w # last.vid
          /\ verifs[w].user = last.uid
          /\ verifs[w].code = verifs[last.vid].code
          /\ verifs[w].created_at < verifs[last.vid].created_at
          /\ ~verifs[w].is_used /\ now < verifs[w].expires_at

\* C16 as stated: every verification row that was ever issued (every primary
\* key the table has handed out) still exists.
C16_NoRowEverDeleted ==
    \A v \in 1..(nextVid - 1) : v \in DOMAIN verifs

\* C16 amended: no request deletes a row that exists when it starts, and the row
\* a sign-up issues exists afterwards unless that sign-up's mail send failed, in
\* which case the rollback deleted it together with the new account.
C16_RowDeletedOnlyByRollback ==
    [][ /\ \A v \in DOMAIN verifs : v \in DOMAIN verifs'
        /\ nextVid' # nextVid =>
             /\ last'.view = "signup" /\ last'.vid = nextVid
             /\ nextVid \in DOMAIN verifs' <=> last'.result # "MailSendFailed" ]_vars

\* a sign-up has just been rolled back: its row is gone, an older row is still
\* there, used by now
C16_Witness ==
    /\ last.view = "signup" /\ last.result = "MailSendFailed"
    /\ last.vid \notin DOMAIN verifs
    /\ \E v \in DOMAIN verifs : v < last.vid /\ verifs[v].is_used

\* C17: only a sign-up request creates a verification row, and every existing
\* account owns exactly one row.
C17_OneRowPerAccount ==
    [][ /\ last'.view # "signup" => (DOMAIN verifs' = DOMAIN verifs /\ nextVid' = nextVid)
        /\ \A u \in DOMAIN users' :
             Cardinality({ v \in DOMAIN verifs' : verifs'[v].user = u }) = 1 ]_vars

\* two accounts, one row each, after a login request and a verify request that
\* issued none
C17_Witness ==
    /\ last.view = "login"
    /\ Cardinality(DOMAIN users) = 2
    /\ Cardinality(DOMAIN verifs) = 2
    /\ nextVid = 3
    /\ \E v \in DOMAIN verifs : verifs[v].is_used
    /\ \A u \in DOMAIN users : \E v \in DOMAIN verifs : verifs[v].user = u

\* C18: every account has is_active equal to is_verified.
C18_ActiveIffVerified ==
    \A u \in DOMAIN users : users[u].is_active = users[u].is_verified

\* one account with both flags set beside one with both flags clear
C18_Witness ==
    /\ \E u \in DOMAIN users : users[u].is_active /\ users[u].is_verified
    /\ \E u \in DOMAIN users : ~users[u].is_active /\ ~users[u].is_verified


\* C19: after every request, every session's pending_user_id, when set, names an
\* account that exists and is not verified; a sign-up whose mail send failed
\* leaves the session as it was, and the session whose verify request succeeded
\* holds no pending_user_id.
C19_PendingNamesUnverifiedAccount ==
    [][ /\ \A s \in Sessions :
             session'[s].pending_user_id # None =>
                /\ session'[s].pending_user_id \in DOMAIN users'
                /\ ~users'[session'[s].pending_user_id].is_verified
        /\ (last'.view = "signup" /\ last'.result = "MailSendFailed") =>
               session' = session
        /\ (last'.view = "verify" /\ last'.result = "Authenticated") =>
               session'[last'.sid].pending_user_id = None ]_vars

\* one session has verified and holds no pending_user_id, the other still holds
\* the pending_user_id of its own unverified account
C19_Witness ==
    /\ last.view = "verify" /\ last.result = "Authenticated"
    /\ session[last.sid].pending_user_id = None
    /\ \E s \in Sessions :
          /\ session[s].pending_user_id # None
          /\ session[s].pending_user_id \in DOMAIN users
          /\ ~users[session[s].pending_user_id].is_verified

\* C20: an account that is neither active nor verified and whose every row has
\* expired is, after every request and every passage of time, still neither
\* active nor verified with every row expired.
C20_ExpiredAccountStaysUnverified ==
    [][ \A u \in DOMAIN users :
          ( /\ ~users[u].is_active /\ ~users[u].is_verified
            /\ \A v \in DOMAIN verifs : verifs[v].user = u => now >= verifs[v].expires_at ) =>
          ( /\ u \in DOMAIN users'
            /\ ~users'[u].is_active /\ ~users'[u].is_verified
            /\ \A v \in DOMAIN verifs' : verifs'[v].user = u => now' >= verifs'[v].expires_at ) ]_vars

\* the issued code was submitted after its expiry and refused, while another
\* account that verified in time is active
C20_Witness ==
    /\ last.view = "verify" /\ last.result = "InvalidOrExpiredCode"
    /\ last.uid \in DOMAIN users
    /\ ~users[last.uid].is_active /\ ~users[last.uid].is_verified
    /\ \A v \in DOMAIN verifs : verifs[v].user = last.uid => now >= verifs[v].expires_at
    /\ \E u \in DOMAIN users : u # last.uid /\ users[u].is_verified

====
